---- MODULE Spec2Model ----
(***************************************************************************)
(* Model of TableStateTracker (src/src/table_state_tracker.py) as driven   *)
(* by RestaurantMonitor.process_frame (src/main_application.py).           *)
(*                                                                         *)
(* time.time() is a float number of seconds.  The model counts the clock   *)
(* in ticks of 1/TicksPerSecond seconds, so that a duration has a          *)
(* fractional part and int(dirty_duration) is a real truncation.           *)
(* An alert is modelled by its table_id and duration fields; "message" is  *)
(* a function of these two and "timestamp" is a wall-clock string.         *)
(***************************************************************************)
EXTENDS Integers, Sequences, FiniteSets

VARIABLES
    table_states,     \* self.table_states: table_id -> state info dict
    alerts,           \* self.alerts: list of alert dicts of the last check_alerts
    dirty_threshold,  \* self.dirty_threshold, in seconds
    now,              \* what time.time() returns, in ticks
    call,             \* the last call made on the tracker and its outcome
    episode,          \* history: per table, check_alerts calls of the current dirty episode
    past_alert,       \* history: per table, an earlier dirty episode returned an alert
    twin,             \* a second run of the tracker on the same clock: its table_states and alerts
    held,             \* what a consumer keeps of the values the tracker returned to it
    detection_boxes,  \* process_frame: the (box, class) list of the frame
    frame_scale,      \* process_frame: frame size / reference size
    assigned,         \* the outcome of _map_detection_to_table
    config,           \* self.config of the monitor
    monitor,          \* the monitor's life: constructed, processing, failed
    writer,           \* a thread inside update_table_state: its position and locals
    reader            \* a thread reading the tracker: its position and what it saw

tracker_vars == <<table_states, alerts, dirty_threshold, now, call, episode, past_alert>>
cadence_vars == <<twin>>
consumer_vars == <<held>>
assign_vars == <<detection_boxes, frame_scale, assigned>>
startup_vars == <<config, monitor>>
thread_vars == <<writer, reader>>

\* what the tracker specification leaves alone
side_vars == <<cadence_vars, consumer_vars, assign_vars, startup_vars, thread_vars>>

vars == <<tracker_vars, side_vars>>

----------------------------------------------------------------------------
(* Bounds *)

MaxTime == 5
MaxThreshold == 1
MaxDetections == 2
MaxThreadTime == 2
TicksPerSecond == 2

----------------------------------------------------------------------------
(* Configuration and inputs *)

\* list(self.config["tables"].keys()), in the order of the configuration
table_ids == <<"T1", "T2">>

TableSet == {table_ids[i] : i \in 1..Len(table_ids)}

\* ids a caller may pass: the configured ones and one that is not configured
CallerIds == TableSet \cup {"T9"}

Dirty == "unoccupied_dirty"
Clean == "unoccupied_clean"
Occupied == "occupied"

\* the three states of the docstring
States == {Clean, Dirty, Occupied}

\* what self.class_names[det_class] can be: the model's class names are not
\* checked against the three states
ClassNames == States \cup {"person"}

\* Python's None for last_dirty_time is <<>>, a time t is <<t>>
None == <<>>

NoCall == [op |-> "init", table_id |-> "-", new_state |-> "-",
           current_state |-> "-", result |-> "-"]

----------------------------------------------------------------------------
(* Pure helpers *)

\* int(x) of a non-negative duration given in ticks: whole seconds
IntSeconds(ticks) == ticks \div TicksPerSecond

\* truth value of state_info["last_dirty_time"]: None and 0.0 are falsy
Truthy(t) == t # None /\ t[1] # 0

\* dirty_duration >= self.dirty_threshold
OverThreshold(duration, threshold) == duration >= threshold * TicksPerSecond

\* history counters tell none, one and several apart: 2 stands for two or more
CountUp(n) == IF n >= 2 THEN 2 ELSE n + 1

----------------------------------------------------------------------------
(* TableStateTracker.__init__ *)

\* the dict built for each table id at construction time t
InitialInfo(t) ==
    [state |-> Clean, last_state_change |-> t,
     last_dirty_time |-> None, dirty_duration |-> 0]

NoEpisode == [due |-> 0, alerts |-> 0]

\* the parts of the state a specification does not use stay as they start
IdleCadence == twin = "none"
IdleConsumer == held = "none"
IdleAssign == detection_boxes = "none" /\ frame_scale = "none" /\ assigned = "none"
IdleStartup == config = "none" /\ monitor = "none"
IdleThreads == writer = "none" /\ reader = "none"
IdleTracker ==
    /\ table_states = "none" /\ alerts = "none" /\ dirty_threshold = "none"
    /\ now = "none" /\ call = "none" /\ episode = "none" /\ past_alert = "none"

Init ==
    /\ now \in 0..1
    /\ dirty_threshold \in 0..MaxThreshold
    /\ table_states = [z \in TableSet |-> InitialInfo(now)]
    /\ alerts = <<>>
    /\ call = NoCall
    /\ episode = [z \in TableSet |-> NoEpisode]
    /\ past_alert = [z \in TableSet |-> FALSE]
    /\ IdleCadence /\ IdleConsumer /\ IdleAssign /\ IdleStartup /\ IdleThreads

----------------------------------------------------------------------------
(* TableStateTracker.update_table_state *)

\* if table_id not in self.table_states
IsTracked(table_id) == table_id \in DOMAIN table_states

\* faulty variant: the refresh restarts the duration
SameStateStepRestarts(info, new_state, t) ==
    IF new_state = Dirty THEN [info EXCEPT !.dirty_duration = 0] ELSE info

\* faulty variant: the refresh also stamps last_state_change
SameStateStepStamps(info, new_state, t) ==
    IF new_state = Dirty
    THEN [info EXCEPT !.dirty_duration = t - info.last_dirty_time[1],
                      !.last_state_change = t]
    ELSE [info EXCEPT !.last_state_change = t]

\* current_state == new_state: refresh the duration of a dirty table
SameStateStep(info, new_state, t) ==
    IF new_state = Dirty
    THEN [info EXCEPT !.dirty_duration = t - info.last_dirty_time[1]]
    ELSE info

\* new_state == "unoccupied_dirty": start a dirty episode
EnterDirty(info, t) ==
    [info EXCEPT !.last_dirty_time = <<t>>, !.dirty_duration = 0]

\* faulty variant: the reset forgets last_dirty_time
LeaveDirtyKeepsTime(info) == [info EXCEPT !.dirty_duration = 0]

\* faulty variant: the reset forgets dirty_duration
LeaveDirtyKeepsDuration(info) == [info EXCEPT !.last_dirty_time = None]

\* elif current_state == "unoccupied_dirty": reset the dirty tracking
LeaveDirty(info) ==
    [info EXCEPT !.dirty_duration = 0, !.last_dirty_time = None]

\* faulty variant: a newly dirty table gets the time of its previous state change
TransitionStepStaleTime(info, new_state, t) ==
    LET moved == [info EXCEPT !.state = new_state, !.last_state_change = t]
    IN  IF new_state = Dirty THEN EnterDirty(moved, info.last_state_change)
        ELSE IF info.state = Dirty THEN LeaveDirty(moved)
        ELSE moved

\* faulty variant: the transition does not stamp last_state_change
TransitionStepKeepsStamp(info, new_state, t) ==
    LET moved == [info EXCEPT !.state = new_state]
    IN  IF new_state = Dirty THEN EnterDirty(moved, t)
        ELSE IF info.state = Dirty THEN LeaveDirty(moved)
        ELSE moved

\* the state transition branch
TransitionStep(info, new_state, t) ==
    LET moved == [info EXCEPT !.state = new_state, !.last_state_change = t]
    IN  IF new_state = Dirty THEN EnterDirty(moved, t)
        ELSE IF info.state = Dirty THEN LeaveDirty(moved)
        ELSE moved

\* faulty variant: an id that is not tracked is ignored without an error
UnknownTableIgnored(op, table_id, new_state) ==
    /\ call' = [op |-> op, table_id |-> table_id, new_state |-> new_state,
                current_state |-> "-", result |-> "False"]
    /\ UNCHANGED <<table_states, alerts, dirty_threshold, now, episode, past_alert>>

\* the outcome of a call with an id that is not tracked
UnknownTable(op, table_id, new_state) ==
    /\ call' = [op |-> op, table_id |-> table_id, new_state |-> new_state,
                current_state |-> "-", result |-> "ValueError"]
    /\ UNCHANGED <<table_states, alerts, dirty_threshold, now, episode, past_alert>>

\* faulty variant: the tables share one state dict, an update reaches them all
UpdatedStatesShared(ts, table_id, new_state, t) ==
    [z \in DOMAIN ts |->
        IF ts[table_id].state # new_state THEN TransitionStep(ts[table_id], new_state, t)
        ELSE SameStateStep(ts[table_id], new_state, t)]

\* self.table_states after the body of update_table_state for a tracked id
UpdatedStates(ts, table_id, new_state, t) ==
    [ts EXCEPT ![table_id] =
        IF ts[table_id].state # new_state THEN TransitionStep(ts[table_id], new_state, t)
        ELSE SameStateStep(ts[table_id], new_state, t)]

UpdateTableState(table_id, new_state) ==
    IF ~IsTracked(table_id)
    THEN UnknownTable("update_table_state", table_id, new_state)
    ELSE LET info == table_states[table_id]
             current_time == now
             current_state == info.state
             changed == current_state # new_state
         IN  /\ table_states' =
                    UpdatedStates(table_states, table_id, new_state, current_time)
             /\ call' = [op |-> "update_table_state", table_id |-> table_id,
                         new_state |-> new_state, current_state |-> current_state,
                         result |-> IF changed THEN "True" ELSE "False"]
             /\ episode' = IF changed THEN [episode EXCEPT ![table_id] = NoEpisode]
                           ELSE episode
             /\ past_alert' =
                    IF changed /\ current_state = Dirty
                    THEN [past_alert EXCEPT ![table_id] = @ \/ episode[table_id].alerts > 0]
                    ELSE past_alert
             /\ UNCHANGED <<alerts, dirty_threshold, now>>

----------------------------------------------------------------------------
(* TableStateTracker.check_alerts *)

\* the condition of the loop body
TracksDirty(info) == info.state = Dirty /\ Truthy(info.last_dirty_time)

\* current_time - state_info["last_dirty_time"]
Elapsed(info, t) == t - info.last_dirty_time[1]

\* the state info of one table after its loop iteration
CheckedInfo(info, t) ==
    IF TracksDirty(info) THEN [info EXCEPT !.dirty_duration = Elapsed(info, t)]
    ELSE info

\* the alert dict
Alert(table_id, duration) ==
    [table_id |-> table_id, duration |-> IntSeconds(duration)]

\* faulty variant: every dirty table alerts, the threshold is not consulted
AlertsOfNoThreshold(table_id, info, t, threshold) ==
    IF TracksDirty(info) THEN <<Alert(table_id, Elapsed(info, t))>> ELSE <<>>

\* what one loop iteration appends to self.alerts
AlertsOf(table_id, info, t, threshold) ==
    IF TracksDirty(info) /\ OverThreshold(Elapsed(info, t), threshold)
    THEN <<Alert(table_id, Elapsed(info, t))>>
    ELSE <<>>

\* the loop over self.table_states.items(), from the i-th table on
RECURSIVE CheckLoop(_, _, _, _)
CheckLoop(i, ts, t, threshold) ==
    IF i > Len(table_ids) THEN <<>>
    ELSE AlertsOf(table_ids[i], ts[table_ids[i]], t, threshold)
            \o CheckLoop(i + 1, ts, t, threshold)

\* the table ids an alert list names
AlertedTables(list) == {list[i].table_id : i \in 1..Len(list)}

\* history: the dirty episode of a table, begun at its last state change, has
\* lasted for the threshold at time t
Due(info, t) ==
    /\ info.state = Dirty
    /\ t - info.last_state_change >= dirty_threshold * TicksPerSecond

\* self.table_states after the loop of check_alerts
CheckedStates(ts, t) == [z \in DOMAIN ts |-> CheckedInfo(ts[z], t)]

CheckAlerts ==
    LET current_time == now
        found == CheckLoop(1, table_states, current_time, dirty_threshold)
    IN  /\ table_states' = CheckedStates(table_states, current_time)
        /\ alerts' = found
        /\ call' = [op |-> "check_alerts", table_id |-> "-", new_state |-> "-",
                    current_state |-> "-", result |-> "list"]
        /\ episode' = [z \in TableSet |->
               [due    |-> IF Due(table_states[z], current_time)
                           THEN CountUp(episode[z].due) ELSE episode[z].due,
                alerts |-> IF z \in AlertedTables(found)
                           THEN CountUp(episode[z].alerts)
                           ELSE episode[z].alerts]]
        /\ UNCHANGED <<dirty_threshold, now, past_alert>>

----------------------------------------------------------------------------
(* TableStateTracker.get_table_state, get_all_states *)

GetTableState(table_id) ==
    IF ~IsTracked(table_id)
    THEN UnknownTable("get_table_state", table_id, "-")
    ELSE /\ call' = [op |-> "get_table_state", table_id |-> table_id,
                     new_state |-> "-", current_state |-> "-", result |-> "dict"]
         /\ UNCHANGED <<table_states, alerts, dirty_threshold, now, episode, past_alert>>

GetAllStates ==
    /\ call' = [op |-> "get_all_states", table_id |-> "-", new_state |-> "-",
                current_state |-> "-", result |-> "dict"]
    /\ UNCHANGED <<table_states, alerts, dirty_threshold, now, episode, past_alert>>

----------------------------------------------------------------------------
(* The clock: time.time() does not decrease between two calls *)

Tick ==
    /\ now < MaxTime
    /\ now' = now + 1
    /\ call' = [NoCall EXCEPT !.op = "tick"]
    /\ UNCHANGED <<table_states, alerts, dirty_threshold, episode, past_alert>>

----------------------------------------------------------------------------

Next ==
    \/ \E table_id \in CallerIds, new_state \in ClassNames :
            UpdateTableState(table_id, new_state) /\ UNCHANGED side_vars
    \/ CheckAlerts /\ UNCHANGED side_vars
    \/ \E table_id \in CallerIds : GetTableState(table_id) /\ UNCHANGED side_vars
    \/ GetAllStates /\ UNCHANGED side_vars
    \/ Tick /\ UNCHANGED side_vars

Spec == Init /\ [][Next]_vars

----------------------------------------------------------------------------
(* Two runs of the tracker on one clock.  Both get the same state-changing   *)
(* updates at the same times and are checked at the same times; each gets    *)
(* its own same-state updates, one per frame that process_frame handles      *)
(* between two changes (main_application.py, lines 134-139).                 *)

CadenceInit ==
    /\ now \in 0..1
    /\ dirty_threshold \in 0..MaxThreshold
    /\ table_states = [z \in TableSet |-> InitialInfo(now)]
    /\ alerts = <<>>
    /\ twin = [states |-> [z \in TableSet |-> InitialInfo(now)], alerts |-> <<>>]
    /\ call = NoCall
    /\ episode = [z \in TableSet |-> NoEpisode]
    /\ past_alert = [z \in TableSet |-> FALSE]
    /\ IdleConsumer /\ IdleAssign /\ IdleStartup /\ IdleThreads

\* what the two-run specification leaves alone
cadence_rest == <<episode, past_alert, consumer_vars, assign_vars, startup_vars, thread_vars>>

CadenceCall(op, run, table_id, new_state, result) ==
    [op |-> op, table_id |-> table_id, new_state |-> new_state,
     current_state |-> run, result |-> result]

\* a frame whose detection changes the state of a table: both runs see it
CadenceChange(table_id, new_state) ==
    /\ table_states[table_id].state # new_state
    /\ table_states' = UpdatedStates(table_states, table_id, new_state, now)
    /\ twin' = [twin EXCEPT !.states = UpdatedStates(@, table_id, new_state, now)]
    /\ call' = CadenceCall("update_table_state", "both", table_id, new_state, "True")
    /\ UNCHANGED <<alerts, dirty_threshold, now, cadence_rest>>

\* a frame that repeats the state of a table, handled by the first run only
CadenceFrameFirst(table_id) ==
    /\ table_states' = UpdatedStates(table_states, table_id,
                                     table_states[table_id].state, now)
    /\ call' = CadenceCall("update_table_state", "first", table_id,
                           table_states[table_id].state, "False")
    /\ UNCHANGED <<alerts, dirty_threshold, now, twin, cadence_rest>>

\* a frame that repeats the state of a table, handled by the second run only
CadenceFrameSecond(table_id) ==
    /\ twin' = [twin EXCEPT !.states = UpdatedStates(@, table_id,
                                                    twin.states[table_id].state, now)]
    /\ call' = CadenceCall("update_table_state", "second", table_id,
                           twin.states[table_id].state, "False")
    /\ UNCHANGED <<table_states, alerts, dirty_threshold, now, cadence_rest>>

\* check_alerts in both runs at the same time
CadenceCheck ==
    /\ table_states' = CheckedStates(table_states, now)
    /\ alerts' = CheckLoop(1, table_states, now, dirty_threshold)
    /\ twin' = [states |-> CheckedStates(twin.states, now),
                alerts |-> CheckLoop(1, twin.states, now, dirty_threshold)]
    /\ call' = CadenceCall("check_alerts", "both", "-", "-", "list")
    /\ UNCHANGED <<dirty_threshold, now, cadence_rest>>

CadenceNext ==
    \/ \E table_id \in TableSet, new_state \in ClassNames :
            CadenceChange(table_id, new_state)
    \/ \E table_id \in TableSet : CadenceFrameFirst(table_id)
    \/ \E table_id \in TableSet : CadenceFrameSecond(table_id)
    \/ CadenceCheck
    \/ Tick /\ UNCHANGED side_vars

SpecCadence == CadenceInit /\ [][CadenceNext]_vars

----------------------------------------------------------------------------
(* A consumer of the tracker's return values.  get_table_state returns      *)
(* self.table_states[table_id], get_all_states returns self.table_states    *)
(* and check_alerts returns self.alerts: Python hands out the objects       *)
(* themselves, not copies.  held.state is the id of the table whose dict    *)
(* the consumer holds, held.all says that it holds the dict of all tables,  *)
(* held.alerts is the alert list it holds: whether self.alerts is still     *)
(* bound to that list, the items it had when returned, the items it has.    *)

NothingHeld == [state |-> <<>>, all |-> FALSE, alerts |-> <<>>]

ConsumerInit ==
    /\ now \in 0..1
    /\ dirty_threshold \in 0..MaxThreshold
    /\ table_states = [z \in TableSet |-> InitialInfo(now)]
    /\ alerts = <<>>
    /\ call = NoCall
    /\ held = NothingHeld
    /\ episode = [z \in TableSet |-> NoEpisode]
    /\ past_alert = [z \in TableSet |-> FALSE]
    /\ IdleCadence /\ IdleAssign /\ IdleStartup /\ IdleThreads

\* what the consumer specification leaves alone
consumer_rest == <<episode, past_alert, cadence_vars, assign_vars, startup_vars, thread_vars>>

ConsumerCall(op, table_id) == [NoCall EXCEPT !.op = op, !.table_id = table_id]

\* return self.table_states[table_id]: the items of the dict the consumer holds
HeldStateItems(table_id) == table_states[table_id]

\* return self.table_states: the items of the dict of all tables the consumer holds
HeldAllItems == table_states

\* faulty variant: check_alerts empties the list in place and fills it again
HeldListCleared(list, found) ==
    IF list.current THEN [list EXCEPT !.items = found] ELSE list

\* self.alerts = []: the tracker binds a new list, a list handed out before
\* keeps its items
HeldListAfterCheck(list, found) ==
    IF list.current THEN [list EXCEPT !.current = FALSE] ELSE list

\* return self.alerts: the list the call hands out
ReturnedList(found) == [current |-> TRUE, seen |-> found, items |-> found]

ConsumerUpdate(table_id, new_state) ==
    /\ table_states' = UpdatedStates(table_states, table_id, new_state, now)
    /\ call' = ConsumerCall("update_table_state", table_id)
    /\ UNCHANGED <<alerts, dirty_threshold, now, held, consumer_rest>>

\* check_alerts; the consumer keeps the list it returns, or the one it has
ConsumerCheck(keep) ==
    LET found == CheckLoop(1, table_states, now, dirty_threshold)
        older == [i \in DOMAIN held.alerts |-> HeldListAfterCheck(held.alerts[i], found)]
    IN  /\ table_states' = CheckedStates(table_states, now)
        /\ alerts' = found
        /\ held' = [held EXCEPT !.alerts = IF keep THEN <<ReturnedList(found)>> ELSE older]
        /\ call' = [ConsumerCall("check_alerts", "-") EXCEPT
                        !.result = IF keep THEN "kept" ELSE "dropped"]
        /\ UNCHANGED <<dirty_threshold, now, consumer_rest>>

ConsumerGetState(table_id) ==
    /\ held' = [held EXCEPT !.state = <<table_id>>]
    /\ call' = ConsumerCall("get_table_state", table_id)
    /\ UNCHANGED <<table_states, alerts, dirty_threshold, now, consumer_rest>>

ConsumerGetAll ==
    /\ held' = [held EXCEPT !.all = TRUE]
    /\ call' = ConsumerCall("get_all_states", "-")
    /\ UNCHANGED <<table_states, alerts, dirty_threshold, now, consumer_rest>>

\* the consumer assigns to a key of the state dict it holds
ConsumerWrite ==
    /\ held.state # <<>>
    /\ table_states' = [table_states EXCEPT ![held.state[1]].dirty_duration = 0]
    /\ call' = ConsumerCall("consumer_write", held.state[1])
    /\ UNCHANGED <<alerts, dirty_threshold, now, held, consumer_rest>>

\* a consumer of the state dicts (the visualizer in process_frame)
SnapshotNext ==
    \/ \E table_id \in TableSet, new_state \in ClassNames :
            ConsumerUpdate(table_id, new_state)
    \/ ConsumerCheck(FALSE)
    \/ \E table_id \in TableSet : ConsumerGetState(table_id)
    \/ ConsumerGetAll
    \/ ConsumerWrite
    \/ Tick /\ UNCHANGED side_vars

SpecSnapshot == ConsumerInit /\ [][SnapshotNext]_vars

\* a consumer of the alert lists (the alert banner in process_frame)
AlertListNext ==
    \/ \E table_id \in TableSet, new_state \in ClassNames :
            ConsumerUpdate(table_id, new_state)
    \/ \E keep \in BOOLEAN : ConsumerCheck(keep)
    \/ Tick /\ UNCHANGED side_vars

SpecAlertList == ConsumerInit /\ [][AlertListNext]_vars

----------------------------------------------------------------------------
(* RestaurantMonitor._map_detection_to_table *)

\* self.config["tables"]: table id -> [x1, y1, x2, y2] in reference coordinates
ConfigTables == [T1 |-> <<0, 0, 3, 3>>, T2 |-> <<4, 0, 7, 3>>]

\* self.class_names: class index -> name (the three classes of the trained model)
class_names == <<Occupied, Clean, Dirty>>

\* boxes a detector may report, in reference coordinates: full, partial and
\* tied overlaps, an IoU of exactly 3/10, boxes over both tables, a box off
\* every table, and boxes of zero and negative width or height
SceneBoxes ==
    { <<0, 0, 3, 3>>, <<0, 0, 4, 1>>, <<0, 0, 3, 1>>, <<0, 2, 3, 3>>,
      <<0, 0, 2, 3>>, <<4, 0, 7, 3>>, <<2, 0, 6, 3>>, <<0, 0, 7, 3>>,
      <<8, 0, 9, 3>>, <<1, 1, 1, 2>>, <<3, 3, 0, 0>>, <<3, 0, 1, 3>> }

\* width / reference_width = height / reference_height of the frames tried
FrameScales == {1, 2}

\* the box as the detector reports it in a frame k times the reference size
ScaleBox(box, k) == [i \in 1..4 |-> box[i] * k]

\* detection_boxes.append(([x1, y1, x2, y2], cls))
Detections(k) ==
    {[box |-> ScaleBox(b, k), cls |-> c] : b \in SceneBoxes, c \in DOMAIN class_names}

Max(a, b) == IF a > b THEN a ELSE b
Min(a, b) == IF a < b THEN a ELSE b

\* faulty variant: a quotient equal to the best so far also replaces it
QuotientAtLeast(p, q) == (p[1] * q[2] - q[1] * p[2]) * (p[2] * q[2]) >= 0

\* a quotient n / d of integers is kept as <<n, d>>; p > q for d # 0
QuotientGreater(p, q) == (p[1] * q[2] - q[1] * p[2]) * (p[2] * q[2]) > 0

\* best_state, best_iou before the first detection; match is the index of
\* the detection that set best_state (0: none)
NoMatch == [state |-> Clean, iou |-> <<3, 10>>, match |-> 0, error |-> FALSE]

\* faulty variant: the test for an empty intersection is missing
MatchStepNoSkip(table_box, det, i, best) ==
    LET x_left == Max(table_box[1], det.box[1])
        y_top == Max(table_box[2], det.box[2])
        x_right == Min(table_box[3], det.box[3])
        y_bottom == Min(table_box[4], det.box[4])
        intersection == (x_right - x_left) * (y_bottom - y_top)
        table_area == (table_box[3] - table_box[1]) * (table_box[4] - table_box[2])
        detection_area == (det.box[3] - det.box[1]) * (det.box[4] - det.box[2])
        union == table_area + detection_area - intersection
    IN  IF best.error THEN best
        ELSE IF union = 0 THEN [best EXCEPT !.error = TRUE]
        ELSE IF QuotientGreater(<<intersection, union>>, best.iou)
             THEN [state |-> class_names[det.cls], iou |-> <<intersection, union>>,
                   match |-> i, error |-> FALSE]
             ELSE best

\* the body of the loop over detection_boxes, for the i-th detection
MatchStep(table_box, det, i, best) ==
    LET x_left == Max(table_box[1], det.box[1])
        y_top == Max(table_box[2], det.box[2])
        x_right == Min(table_box[3], det.box[3])
        y_bottom == Min(table_box[4], det.box[4])
        intersection == (x_right - x_left) * (y_bottom - y_top)
        table_area == (table_box[3] - table_box[1]) * (table_box[4] - table_box[2])
        detection_area == (det.box[3] - det.box[1]) * (det.box[4] - det.box[2])
        union == table_area + detection_area - intersection
    IN  IF best.error THEN best
        ELSE IF x_right < x_left \/ y_bottom < y_top THEN best
        ELSE IF union = 0 THEN [best EXCEPT !.error = TRUE]
        ELSE IF QuotientGreater(<<intersection, union>>, best.iou)
             THEN [state |-> class_names[det.cls], iou |-> <<intersection, union>>,
                   match |-> i, error |-> FALSE]
             ELSE best

\* the loop over detection_boxes for one table, from the i-th detection on
RECURSIVE MatchLoop(_, _, _, _)
MatchLoop(table_box, dets, i, best) ==
    IF i > Len(dets) THEN best
    ELSE MatchLoop(table_box, dets, i + 1, MatchStep(table_box, dets[i], i, best))

\* the loop over self.config["tables"]: the returned dict, the detection
\* behind each entry, and whether intersection / union raised ZeroDivisionError
MapDetectionToTable(dets) ==
    LET best == [z \in DOMAIN ConfigTables |-> MatchLoop(ConfigTables[z], dets, 1, NoMatch)]
    IN  [done |-> TRUE,
         error |-> \E z \in DOMAIN ConfigTables : best[z].error,
         states |-> [z \in DOMAIN ConfigTables |-> best[z].state],
         match |-> [z \in DOMAIN ConfigTables |-> best[z].match]]

Pending == [done |-> FALSE, error |-> FALSE, states |-> <<>>, match |-> <<>>]

AssignInit ==
    /\ frame_scale \in FrameScales
    /\ detection_boxes = <<>>
    /\ assigned = Pending
    /\ IdleTracker /\ IdleCadence /\ IdleConsumer /\ IdleStartup /\ IdleThreads

\* what the assigner specification leaves alone
assign_rest == <<tracker_vars, cadence_vars, consumer_vars, startup_vars, thread_vars>>

\* one pass of the loop over the detector's boxes in process_frame
AppendDetection ==
    /\ ~assigned.done
    /\ Len(detection_boxes) < MaxDetections
    /\ \E det \in Detections(frame_scale) :
          detection_boxes' = Append(detection_boxes, det)
    /\ UNCHANGED <<frame_scale, assigned, assign_rest>>

\* table_detection_states = self._map_detection_to_table(detection_boxes)
MapDetections ==
    /\ ~assigned.done
    /\ assigned' = MapDetectionToTable(detection_boxes)
    /\ UNCHANGED <<detection_boxes, frame_scale, assign_rest>>

\* the next frame of the same source
NextFrame ==
    /\ assigned.done
    /\ detection_boxes' = <<>>
    /\ assigned' = Pending
    /\ UNCHANGED <<frame_scale, assign_rest>>

AssignNext == AppendDetection \/ MapDetections \/ NextFrame

SpecAssign == AssignInit /\ [][AssignNext]_vars

----------------------------------------------------------------------------
(* RestaurantMonitor.__init__ and the start of process_frame *)

\* the "tables" object of the configuration file: its keys, in file order
ConfigTableLists == {<<>>, <<"T1">>, <<"T1", "T2">>}

\* values of "reference_width" and "reference_height" in the file
ReferenceSizes == {-2, 0, 2}

\* frame.shape[:2] of the video source, (height, width)
FrameShape == <<2, 2>>

\* json.load(f): a file with or without the "tables" key
Configs ==
    [has_tables : {TRUE}, tables : ConfigTableLists,
     reference_width : ReferenceSizes, reference_height : ReferenceSizes]
    \cup
    [has_tables : {FALSE}, tables : {<<>>},
     reference_width : ReferenceSizes, reference_height : ReferenceSizes]

\* no RestaurantMonitor object yet
NoMonitor ==
    [phase |-> "unbuilt", error |-> "none", tracker_tables |-> <<>>,
     frame_count |-> 0, scale |-> <<>>]

StartupInit ==
    /\ config \in Configs
    /\ monitor = NoMonitor
    /\ IdleTracker /\ IdleCadence /\ IdleConsumer /\ IdleAssign /\ IdleThreads

\* what the startup specification leaves alone
startup_rest == <<tracker_vars, cadence_vars, consumer_vars, assign_vars, thread_vars>>

\* RestaurantMonitor(model_path, config_path): self.config["tables"] raises
\* KeyError when the key is missing; nothing else is looked at, and
\* TableStateTracker builds one entry per id of whatever list it is given
Construct ==
    /\ monitor.phase = "unbuilt"
    /\ monitor' =
          IF ~config.has_tables
          THEN [monitor EXCEPT !.phase = "failed", !.error = "KeyError"]
          ELSE [monitor EXCEPT !.phase = "ready", !.tracker_tables = config.tables]
    /\ UNCHANGED <<config, startup_rest>>

\* process_frame up to scale_y: the quotients height / reference_height and
\* width / reference_width, kept as <<n, d>> pairs
BeginFrame ==
    /\ monitor.phase = "ready"
    /\ monitor' =
          IF config.reference_width = 0 \/ config.reference_height = 0
          THEN [monitor EXCEPT !.phase = "failed", !.error = "ZeroDivisionError",
                               !.frame_count = CountUp(@)]
          ELSE [monitor EXCEPT !.phase = "scaled", !.frame_count = CountUp(@),
                               !.scale = <<<<FrameShape[2], config.reference_width>>,
                                           <<FrameShape[1], config.reference_height>>>>]
    /\ UNCHANGED <<config, startup_rest>>

\* process_frame from the detector call to check_alerts: the assigner, the
\* update of every assigned table and the alert scan all run
TrackFrame ==
    /\ monitor.phase = "scaled"
    /\ monitor' = [monitor EXCEPT !.phase = "tracked"]
    /\ UNCHANGED <<config, startup_rest>>

\* the rest of process_frame (drawing) and the return to the frame loop
FinishFrame ==
    /\ monitor.phase = "tracked"
    /\ monitor' = [monitor EXCEPT !.phase = "ready"]
    /\ UNCHANGED <<config, startup_rest>>

StartupNext == Construct \/ BeginFrame \/ TrackFrame \/ FinishFrame

SpecStartup == StartupInit /\ [][StartupNext]_vars

----------------------------------------------------------------------------
(* update_table_state run by one thread while another thread reads:
   each statement of the tracker is one step, nothing in the tracker holds
   a lock *)

\* the table the writing thread's calls are about
WriterTables == {table_ids[1]}

WriterIdle ==
    [pc |-> "idle", table_id |-> "-", new_state |-> "-",
     current_time |-> 0, current_state |-> "-", error |-> "none"]

ReaderIdle ==
    [pc |-> "idle", op |-> "-", i |-> 0, current_time |-> 0,
     dirty_duration |-> 0, seen |-> <<>>, error |-> "none"]

ThreadInit ==
    /\ now \in 0..1
    /\ dirty_threshold \in 0..MaxThreshold
    /\ table_states = [z \in TableSet |-> InitialInfo(now)]
    /\ alerts = <<>>
    /\ call = NoCall
    /\ episode = [z \in TableSet |-> NoEpisode]
    /\ past_alert = [z \in TableSet |-> FALSE]
    /\ writer = WriterIdle
    /\ reader = ReaderIdle
    /\ IdleCadence /\ IdleConsumer /\ IdleAssign /\ IdleStartup

\* what the thread specification leaves alone
thread_rest ==
    <<dirty_threshold, call, episode, past_alert,
      cadence_vars, consumer_vars, assign_vars, startup_vars>>

\* self.table_states[table_id][key] = value
SetItem(table_id, key, value) ==
    table_states' = [table_states EXCEPT ![table_id][key] = value]

\* update_table_state, lines 43-50: the membership test, current_time,
\* current_state and the comparison with new_state
WriterCall(table_id, new_state) ==
    /\ writer.pc = "idle"
    /\ IsTracked(table_id)
    /\ writer' =
          [pc |-> IF table_states[table_id].state = new_state
                  THEN (IF new_state = Dirty THEN "l52" ELSE "idle")
                  ELSE "l58",
           table_id |-> table_id, new_state |-> new_state,
           current_time |-> now,
           current_state |-> table_states[table_id].state,
           error |-> "none"]
    /\ UNCHANGED <<table_states, alerts, now, reader, thread_rest>>

\* lines 52-55: the refresh of dirty_duration; the subtraction raises
\* TypeError on None
WriterRefresh ==
    /\ writer.pc = "l52"
    /\ LET info == table_states[writer.table_id]
       IN  IF info.last_dirty_time = None
           THEN /\ writer' = [writer EXCEPT !.pc = "idle", !.error = "TypeError"]
                /\ UNCHANGED table_states
           ELSE /\ SetItem(writer.table_id, "dirty_duration",
                           writer.current_time - info.last_dirty_time[1])
                /\ writer' = [writer EXCEPT !.pc = "idle"]
    /\ UNCHANGED <<alerts, now, reader, thread_rest>>

\* line 58
WriterSetState ==
    /\ writer.pc = "l58"
    /\ SetItem(writer.table_id, "state", writer.new_state)
    /\ writer' = [writer EXCEPT !.pc = "l59"]
    /\ UNCHANGED <<alerts, now, reader, thread_rest>>

\* line 59 and the tests of lines 62 and 67
WriterStamp ==
    /\ writer.pc = "l59"
    /\ SetItem(writer.table_id, "last_state_change", writer.current_time)
    /\ writer' = [writer EXCEPT !.pc =
          IF writer.new_state = Dirty THEN "l63"
          ELSE IF writer.current_state = Dirty THEN "l68"
          ELSE "idle"]
    /\ UNCHANGED <<alerts, now, reader, thread_rest>>

\* line 63
WriterSetDirtyTime ==
    /\ writer.pc = "l63"
    /\ SetItem(writer.table_id, "last_dirty_time", <<writer.current_time>>)
    /\ writer' = [writer EXCEPT !.pc = "l64"]
    /\ UNCHANGED <<alerts, now, reader, thread_rest>>

\* line 64, and line 68
WriterZeroDuration ==
    /\ writer.pc \in {"l64", "l68"}
    /\ SetItem(writer.table_id, "dirty_duration", 0)
    /\ writer' = [writer EXCEPT !.pc = IF @ = "l64" THEN "idle" ELSE "l69"]
    /\ UNCHANGED <<alerts, now, reader, thread_rest>>

\* line 69
WriterClearDirtyTime ==
    /\ writer.pc = "l69"
    /\ SetItem(writer.table_id, "last_dirty_time", None)
    /\ writer' = [writer EXCEPT !.pc = "idle"]
    /\ UNCHANGED <<alerts, now, reader, thread_rest>>

\* get_table_state(table_id), or get_all_states()[table_id], and the
\* caller's look at the items of the dict it was handed
ReaderObserve(op, table_id) ==
    /\ reader.pc = "idle"
    /\ reader' = [ReaderIdle EXCEPT !.op = op, !.seen = <<table_states[table_id]>>]
    /\ UNCHANGED <<table_states, alerts, now, writer, thread_rest>>

\* check_alerts, lines 80-81
ReaderCheckStart ==
    /\ reader.pc = "idle"
    /\ reader' = [ReaderIdle EXCEPT !.op = "check_alerts", !.pc = "l84",
                                    !.i = 1, !.current_time = now]
    /\ alerts' = <<>>
    /\ UNCHANGED <<table_states, now, writer, thread_rest>>

\* line 83 and the test of line 84 on the next table; line 98 after the last
ReaderCheckTest ==
    /\ reader.pc = "l84"
    /\ reader' =
          IF reader.i > Len(table_ids) THEN [reader EXCEPT !.pc = "idle"]
          ELSE LET info == table_states[table_ids[reader.i]]
               IN  IF TracksDirty(info)
                   THEN [reader EXCEPT !.pc = "l85", !.seen = <<info>>]
                   ELSE [reader EXCEPT !.i = @ + 1, !.seen = <<info>>]
    /\ UNCHANGED <<table_states, alerts, now, writer, thread_rest>>

\* line 85: the subtraction raises TypeError on None and ends the call
ReaderCheckElapsed ==
    /\ reader.pc = "l85"
    /\ LET info == table_states[table_ids[reader.i]]
       IN  reader' =
             IF info.last_dirty_time = None
             THEN [reader EXCEPT !.pc = "idle", !.error = "TypeError"]
             ELSE [reader EXCEPT !.pc = "l86",
                     !.dirty_duration = reader.current_time - info.last_dirty_time[1]]
    /\ UNCHANGED <<table_states, alerts, now, writer, thread_rest>>

\* lines 86-96
ReaderCheckStore ==
    /\ reader.pc = "l86"
    /\ SetItem(table_ids[reader.i], "dirty_duration", reader.dirty_duration)
    /\ alerts' =
          IF OverThreshold(reader.dirty_duration, dirty_threshold)
          THEN Append(alerts, Alert(table_ids[reader.i], reader.dirty_duration))
          ELSE alerts
    /\ reader' = [reader EXCEPT !.pc = "l84", !.i = @ + 1]
    /\ UNCHANGED <<now, writer, thread_rest>>

\* time.time() moves on between any two statements
ThreadTick ==
    /\ now < MaxThreadTime
    /\ now' = now + 1
    /\ UNCHANGED <<table_states, alerts, writer, reader, thread_rest>>

ThreadNext ==
    \/ \E table_id \in WriterTables, new_state \in States : WriterCall(table_id, new_state)
    \/ WriterRefresh
    \/ WriterSetState
    \/ WriterStamp
    \/ WriterSetDirtyTime
    \/ WriterZeroDuration
    \/ WriterClearDirtyTime
    \/ \E op \in {"get_table_state", "get_all_states"}, table_id \in TableSet :
            ReaderObserve(op, table_id)
    \/ ReaderCheckStart
    \/ ReaderCheckTest
    \/ ReaderCheckElapsed
    \/ ReaderCheckStore
    \/ ThreadTick

SpecThreads == ThreadInit /\ [][ThreadNext]_vars

----------------------------------------------------------------------------
(* The frame loop kept running: RestaurantMonitor.run calls process_frame
   for every frame, and process_frame calls check_alerts every time *)

\* an update, made while the clock of the model still has the threshold's
\* length to run, so that a table made dirty can come due before MaxTime
LiveUpdate(table_id, new_state) ==
    /\ now + dirty_threshold * TicksPerSecond <= MaxTime
    /\ UpdateTableState(table_id, new_state)
    /\ UNCHANGED side_vars

LiveCheck == CheckAlerts /\ UNCHANGED side_vars

LiveTick == Tick /\ UNCHANGED side_vars

LiveNext ==
    \/ \E table_id \in CallerIds, new_state \in ClassNames :
            LiveUpdate(table_id, new_state)
    \/ LiveCheck
    \/ LiveTick

\* the loop never stops calling check_alerts and time never stops
SpecLive ==
    Init /\ [][LiveNext]_vars /\ WF_vars(LiveCheck) /\ WF_vars(LiveTick)

----------------------------------------------------------------------------
(* Properties *)

Info(z) == table_states[z]

AfterCheck == call.op = "check_alerts"

AfterUpdate(z) == call.op = "update_table_state" /\ call.table_id = z

\* the alerts of the last check_alerts that name table z
AlertsNaming(z) == {i \in 1..Len(alerts) : alerts[i].table_id = z}

\* C1: within one continuous dirty episode of a table at most one check_alerts
\* call returns an alert for it, and that call is the first one made when the
\* episode has lasted for the threshold.
C1_SingleAlertPerEpisode ==
    \A z \in TableSet :
        /\ episode[z].alerts <= 1
        /\ (AfterCheck /\ AlertsNaming(z) # {}) => episode[z].due = 1

\* C2: once an earlier dirty episode of a table has alerted and ended, a
\* check_alerts call returns an alert for the table exactly when the table is
\* dirty again and the new episode, begun at its re-entry, has lasted for the
\* threshold: none before that, one from then on.
C2_ReAlertAfterRecovery ==
    \A z \in TableSet :
        (AfterCheck /\ past_alert[z]) =>
            (AlertsNaming(z) # {} <=> Due(Info(z), now))

C2_Witness ==
    \E z \in TableSet :
        /\ AfterCheck
        /\ past_alert[z]
        /\ dirty_threshold > 0
        /\ AlertsNaming(z) # {}

\* C3: last_dirty_time is set exactly for the tables whose state is
\* unoccupied_dirty.
C3_DirtySinceIffDirty ==
    \A z \in TableSet :
        Info(z).last_dirty_time # None <=> Info(z).state = Dirty

C3_Witness ==
    \E z \in TableSet :
        /\ AfterUpdate(z)
        /\ call.current_state = Dirty
        /\ call.result = "True"
        /\ Info(z).last_dirty_time = None
        /\ \E y \in TableSet : Info(y).last_dirty_time # None

\* C4: a table that is not dirty has dirty_duration 0, and so has a table right
\* after an update that moved it into or out of unoccupied_dirty.
C4_DurationZeroUnlessDirty ==
    \A z \in TableSet :
        /\ Info(z).state # Dirty => Info(z).dirty_duration = 0
        /\ ( /\ AfterUpdate(z)
             /\ call.result = "True"
             /\ (call.new_state = Dirty \/ call.current_state = Dirty) )
           => Info(z).dirty_duration = 0

C4_Witness ==
    \E z \in TableSet :
        /\ AfterUpdate(z)
        /\ call.result = "True"
        /\ call.current_state = Dirty
        /\ episode[z] = NoEpisode
        /\ past_alert[z]
        /\ Info(z).dirty_duration = 0

\* C5: in a step that leaves a table dirty (a same-state update, a
\* check_alerts, a call on another table, a clock tick) the table's
\* dirty_duration does not decrease.
C5_DurationMonotone ==
    [][ \A z \in TableSet :
            (Info(z).state = Dirty /\ table_states'[z].state = Dirty)
                => table_states'[z].dirty_duration >= Info(z).dirty_duration ]_vars

C5_Witness ==
    \E z \in TableSet :
        /\ AfterUpdate(z)
        /\ call.result = "False"
        /\ Info(z).state = Dirty
        /\ Info(z).dirty_duration > 1
        /\ episode[z].due > 0

\* C6: update_table_state and get_table_state with an id that is not tracked
\* raise ValueError and leave the tracker as it was.
C6_UnknownTableRejected ==
    [][ ( /\ call'.op \in {"update_table_state", "get_table_state"}
          /\ call'.table_id \notin TableSet )
        => /\ call'.result = "ValueError"
           /\ table_states' = table_states
           /\ DOMAIN table_states' = TableSet
           /\ alerts' = alerts
           /\ dirty_threshold' = dirty_threshold ]_vars

C6_Witness ==
    /\ call.op = "update_table_state"
    /\ call.table_id \notin TableSet
    /\ call.result = "ValueError"
    /\ \E z \in TableSet : Info(z).state = Dirty

\* C7: an update of a tracked table with a state other than its current one
\* returns True, sets state to it and last_state_change to the clock; entering
\* unoccupied_dirty sets last_dirty_time to the clock and dirty_duration to 0,
\* leaving it sets last_dirty_time to None and dirty_duration to 0.
C7_TransitionStep ==
    [][ \A z \in TableSet, l \in ClassNames :
            ( /\ call'.op = "update_table_state"
              /\ call'.table_id = z
              /\ call'.new_state = l
              /\ Info(z).state # l )
            => /\ call'.result = "True"
               /\ table_states'[z].state = l
               /\ table_states'[z].last_state_change = now
               /\ now' = now
               /\ l = Dirty =>
                    /\ table_states'[z].last_dirty_time = <<now>>
                    /\ table_states'[z].dirty_duration = 0
               /\ Info(z).state = Dirty =>
                    /\ table_states'[z].last_dirty_time = None
                    /\ table_states'[z].dirty_duration = 0 ]_vars

C7_Witness ==
    \E z \in TableSet :
        /\ AfterUpdate(z)
        /\ call.result = "True"
        /\ call.current_state = Dirty
        /\ call.new_state = Occupied
        /\ Info(z).state = Occupied
        /\ Info(z).last_state_change = now
        /\ now > 0

\* C8: an update of a tracked table with its current state returns False and
\* leaves state, last_state_change and last_dirty_time alone; dirty_duration
\* becomes clock - last_dirty_time for a dirty table and is left alone otherwise.
C8_SameStateStep ==
    [][ \A z \in TableSet, l \in ClassNames :
            ( /\ call'.op = "update_table_state"
              /\ call'.table_id = z
              /\ call'.new_state = l
              /\ Info(z).state = l )
            => /\ call'.result = "False"
               /\ table_states'[z].state = Info(z).state
               /\ table_states'[z].last_state_change = Info(z).last_state_change
               /\ table_states'[z].last_dirty_time = Info(z).last_dirty_time
               /\ table_states'[z].dirty_duration =
                    IF l = Dirty THEN now - Info(z).last_dirty_time[1]
                    ELSE Info(z).dirty_duration ]_vars

C8_Witness ==
    \E z \in TableSet :
        /\ AfterUpdate(z)
        /\ call.result = "False"
        /\ call.new_state = Dirty
        /\ Info(z).last_state_change < now
        /\ Info(z).dirty_duration = now - Info(z).last_dirty_time[1]
        /\ episode[z].due = 0

\* C9: the first check_alerts call made when a dirty episode begun at t0 (any
\* t0 >= 0) has lasted for the threshold returns exactly one alert for the
\* table, with duration int(now - t0).
C9_AlertCompleteness ==
    \A z \in TableSet :
        (AfterCheck /\ Due(Info(z), now) /\ episode[z].due = 1) =>
            /\ Cardinality(AlertsNaming(z)) = 1
            /\ \A i \in AlertsNaming(z) :
                    alerts[i].duration = (now - Info(z).last_state_change) \div TicksPerSecond

\* C10: every alert a check_alerts call returns names a tracked table that is
\* dirty with clock - last_dirty_time >= threshold, and no table is named twice.
C10_AlertSoundness ==
    AfterCheck =>
        /\ \A i \in 1..Len(alerts) :
              /\ alerts[i].table_id \in TableSet
              /\ Info(alerts[i].table_id).state = Dirty
              /\ Info(alerts[i].table_id).last_dirty_time # None
              /\ now - Info(alerts[i].table_id).last_dirty_time[1]
                    >= dirty_threshold * TicksPerSecond
        /\ \A z \in TableSet : Cardinality(AlertsNaming(z)) <= 1

C10_Witness ==
    /\ AfterCheck
    /\ Len(alerts) = 1
    /\ dirty_threshold > 0
    /\ \E z \in TableSet : Info(z).state = Dirty /\ AlertsNaming(z) = {}

\* C19: every tracked table's state is one of the three states, whatever
\* new_state the callers pass, and a table starts unoccupied_clean with no
\* last_dirty_time and dirty_duration 0.
C19_ThreeStates ==
    \A z \in TableSet :
        /\ Info(z).state \in States
        /\ call = NoCall =>
              /\ Info(z).state = Clean
              /\ Info(z).last_dirty_time = None
              /\ Info(z).dirty_duration = 0

\* C20: an update_table_state call for one table leaves the state info of
\* every other table as it was, and the tracked ids are always those of the
\* construction.
C20_TableIndependence ==
    [][ /\ DOMAIN table_states' = TableSet
        /\ call'.op = "update_table_state" =>
              \A z \in TableSet \ {call'.table_id} : table_states'[z] = Info(z) ]_vars

C20_Witness ==
    \E a, b \in TableSet :
        /\ a # b
        /\ AfterUpdate(a)
        /\ call.result = "True"
        /\ Info(a).last_state_change = now
        /\ Info(b).state = Dirty
        /\ Info(b).dirty_duration > 0
        /\ Info(b).last_state_change < now
        /\ DOMAIN table_states = TableSet

\* C11: two runs that differ only in their same-state updates agree whenever
\* both are checked at the same time: the same alerts, and for every dirty
\* table a dirty_duration of clock - last_dirty_time in both; a same-state
\* update leaves that value too.
C11_CadenceIndependence ==
    \A z \in TableSet :
        /\ AfterCheck =>
              /\ alerts = twin.alerts
              /\ Info(z).dirty_duration = twin.states[z].dirty_duration
              /\ Info(z).state = Dirty =>
                    Info(z).dirty_duration = now - Info(z).last_dirty_time[1]
        /\ (AfterUpdate(z) /\ call.result = "False" /\ Info(z).state = Dirty) =>
              \/ call.current_state = "second"
              \/ Info(z).dirty_duration = now - Info(z).last_dirty_time[1]
        /\ ( /\ AfterUpdate(z)
             /\ call.result = "False"
             /\ twin.states[z].state = Dirty
             /\ call.current_state = "second" ) =>
              twin.states[z].dirty_duration = now - twin.states[z].last_dirty_time[1]

\* C12: a tracker call does not change the items of a state value the
\* consumer holds from get_table_state or get_all_states, and an assignment
\* the consumer makes to a held value does not change the tracker's state.
C12_ReadOnlySnapshots ==
    [][ /\ ( /\ call'.op \in {"update_table_state", "check_alerts"}
             /\ held.state # <<>> )
           => HeldStateItems(held.state[1])' = HeldStateItems(held.state[1])
        /\ ( /\ call'.op \in {"update_table_state", "check_alerts"}
             /\ held.all )
           => HeldAllItems' = HeldAllItems
        /\ call'.op = "consumer_write" => table_states' = table_states ]_vars

\* C13 as stated: once check_alerts has returned, no field of the tracker
\* holds the alerts it produced, and a list it returned keeps its items.
C13_AlertsTransient ==
    /\ alerts = <<>>
    /\ \A i \in DOMAIN held.alerts : held.alerts[i].items = held.alerts[i].seen

\* C13 as amended: self.alerts holds the alerts of the latest check_alerts call
\* until the next call binds a new list; a list a call returned keeps its
\* items, and is the tracker's list only until the next call.
C13_LatestAlertsOnly ==
    \A i \in DOMAIN held.alerts :
        /\ held.alerts[i].items = held.alerts[i].seen
        /\ held.alerts[i].current => alerts = held.alerts[i].items
        /\ (AfterCheck /\ call.result = "dropped") => ~held.alerts[i].current

C13_Witness ==
    /\ AfterCheck
    /\ call.result = "dropped"
    /\ alerts # <<>>
    /\ \E i \in DOMAIN held.alerts :
          /\ held.alerts[i].seen # <<>>
          /\ held.alerts[i].items = held.alerts[i].seen
          /\ ~held.alerts[i].current

\* --- the assigner ---

\* a rectangle of positive width and height
Proper(box) == box[1] < box[3] /\ box[2] < box[4]

Area(box) == (box[3] - box[1]) * (box[4] - box[2])

\* area common to a zone rectangle and a proper box
Overlap(zone, box) ==
    LET w == Min(zone[3], box[3]) - Max(zone[1], box[1])
        h == Min(zone[4], box[4]) - Max(zone[2], box[2])
    IN  IF w > 0 /\ h > 0 THEN w * h ELSE 0

\* intersection over union as <<numerator, denominator>>, the denominator
\* positive; a box of zero or negative area matches nothing
IoU(zone, box) ==
    IF Proper(box)
    THEN <<Overlap(zone, box), Area(zone) + Area(box) - Overlap(zone, box)>>
    ELSE <<0, 1>>

Above(p, q) == p[1] * q[2] > q[1] * p[2]

\* detections whose IoU with the zone is strictly greater than 0.3
Qualifying(zone, dets) ==
    {i \in DOMAIN dets : Above(IoU(zone, dets[i].box), <<3, 10>>)}

\* the qualifying detections of the largest IoU
Winners(zone, dets) ==
    {i \in Qualifying(zone, dets) :
        \A j \in Qualifying(zone, dets) :
            ~Above(IoU(zone, dets[j].box), IoU(zone, dets[i].box))}

Earliest(S) == CHOOSE i \in S : \A j \in S : i <= j

ExpectedState(zone, dets) ==
    IF Qualifying(zone, dets) = {} THEN Clean
    ELSE class_names[dets[Earliest(Winners(zone, dets))].cls]

\* C14: the assigner returns one entry per configured table; the entry is
\* the class of the detection of largest IoU with the table's configured
\* rectangle among those of IoU strictly above 0.3, the earliest in the list
\* when several share that IoU, and unoccupied_clean when there is none
\* (the rectangle is the one the configuration gives; scaling it to the
\* frame is the subject of C15)
C14_SelectionRule ==
    assigned.done =>
        /\ DOMAIN assigned.states = TableSet
        /\ \A z \in TableSet :
              assigned.states[z] = ExpectedState(ConfigTables[z], detection_boxes)

\* two detections of different classes tie for the largest IoU of a table
\* and the earlier one gives the label, while the other table, which no
\* detection matches, gets the default
C14_Witness ==
    /\ assigned.done
    /\ \E z \in TableSet :
          LET W == Winners(ConfigTables[z], detection_boxes)
          IN  /\ \E i, j \in W :
                    i < j /\ detection_boxes[i].cls # detection_boxes[j].cls
              /\ assigned.states[z] =
                    class_names[detection_boxes[Earliest(W)].cls]
    /\ \E z \in TableSet :
          /\ Qualifying(ConfigTables[z], detection_boxes) = {}
          /\ assigned.states[z] = Clean

\* the detections of a frame k times the reference size, brought back to
\* reference coordinates
Unscale(dets, k) ==
    [i \in DOMAIN dets |->
        [box |-> [c \in 1..4 |-> dets[i].box[c] \div k], cls |-> dets[i].cls]]

\* C15: the assignment at a frame of twice the reference size, every
\* detection coordinate doubled, equals the assignment of the original
\* detections at the reference size
C15_ScaleInvariance ==
    assigned.done =>
        assigned.states =
            MapDetectionToTable(Unscale(detection_boxes, frame_scale)).states

\* C16: assignment completes without an error for every detection list,
\* boxes of zero or negative area included, and the detection behind a
\* table's label is never such a box
C16_AssignTotal ==
    assigned.done =>
        /\ ~assigned.error
        /\ \A z \in TableSet :
              \/ assigned.match[z] = 0
              \/ Proper(detection_boxes[assigned.match[z]].box)

\* a box of zero area and a box of negative area, both with their corners
\* inside a table's rectangle, were in the list that was assigned
C16_Witness ==
    /\ assigned.done
    /\ ~assigned.error
    /\ \E z \in TableSet : \E i, j \in DOMAIN detection_boxes :
          LET Inside(b) ==
                  /\ \A c \in {1, 3} : ConfigTables[z][1] <= b[c] /\ b[c] <= ConfigTables[z][3]
                  /\ \A c \in {2, 4} : ConfigTables[z][2] <= b[c] /\ b[c] <= ConfigTables[z][4]
              bi == detection_boxes[i].box
              bj == detection_boxes[j].box
          IN  /\ Inside(bi) /\ Inside(bj)
              /\ Area(bi) = 0
              /\ bj[3] < bj[1] /\ bj[4] < bj[2]

\* --- startup ---

\* C17: a configuration with zero tables or with a reference width or
\* height that is not positive ends construction in a fatal error, so the
\* monitor is never built, and no frame is ever processed, on one
C17_StartupValidation ==
    monitor.phase \in {"ready", "scaled", "tracked"} =>
        /\ config.tables # <<>>
        /\ config.reference_width > 0
        /\ config.reference_height > 0

\* --- threads ---

\* a state info as the tracker leaves it between two calls
Settled(info) ==
    IF info.state = Dirty THEN info.last_dirty_time # None
    ELSE info.last_dirty_time = None /\ info.dirty_duration = 0

\* C18: a reader running alongside the writer's update never sees a state
\* info that is dirty without last_dirty_time, or not dirty with a
\* last_dirty_time or a dirty_duration other than 0, and neither thread's
\* operation fails
C18_SerializedMutation ==
    /\ \A k \in DOMAIN reader.seen : Settled(reader.seen[k])
    /\ reader.error = "none"
    /\ writer.error = "none"

\* --- the frame of check_alerts ---

\* C21: a check_alerts call changes no table's state, last_state_change or
\* last_dirty_time; it leaves the dirty_duration of every table that is not
\* dirty as it was, and sets that of every dirty table to
\* clock - last_dirty_time
C21_CheckFrame ==
    [][ call'.op = "check_alerts" =>
          \A z \in TableSet :
              /\ table_states'[z].state = Info(z).state
              /\ table_states'[z].last_state_change = Info(z).last_state_change
              /\ table_states'[z].last_dirty_time = Info(z).last_dirty_time
              /\ Info(z).state # Dirty =>
                    table_states'[z].dirty_duration = Info(z).dirty_duration
              /\ Info(z).state = Dirty =>
                    table_states'[z].dirty_duration = now - Info(z).last_dirty_time[1] ]_vars

\* --- liveness ---

\* C22: a table that is dirty and gets no state-changing update is, with
\* the clock advancing and check_alerts called again and again, eventually
\* named by an alert that a check_alerts call returns
C22_AlertLiveness ==
    \A z \in TableSet :
        (Info(z).state = Dirty) ~>
            (Info(z).state # Dirty \/ (AfterCheck /\ AlertsNaming(z) # {}))

============================================================================
